---- MODULE Spec2Model ----
(***************************************************************************)
(* Model of dockermap/map/input.py: the conversion of shorthand input      *)
(* values into SharedVolume, ContainerLink and PortBinding tuples.         *)
(*                                                                         *)
(* Python values are tagged records; the tag t is the Python type.  Fields *)
(* of different Python types carry different field names, so that any two  *)
(* values can be compared.  A call either returns a value or raises an     *)
(* exception; both outcomes are records as well.                           *)
(***************************************************************************)
EXTENDS Integers, Sequences, FiniteSets, TLC

VARIABLES value, func, result

vars == <<value, func, result>>

----------------------------------------------------------------------------
(* Python values *)

None == [t |-> "NoneType"]
Bool(b) == [t |-> "bool", b |-> b]
PyInt(n) == [t |-> "int", n |-> n]
Str(s) == [t |-> "str", s |-> s]
\* an object of lazy_type, or of a type in the type registry
Lazy(id) == [t |-> "lazy", id |-> id]
\* a value of a type none of the functions knows
Float == [t |-> "float"]
Tuple(items) == [t |-> "tuple", items |-> items]
List(items) == [t |-> "list", items |-> items]
\* a dict, as the sequence of its (key, value) entries in iteration order
Entry(k, v) == [k |-> k, val |-> v]
Dict(pairs) == [t |-> "dict", pairs |-> pairs]

SharedVolume(volume, readonly) ==
    [t |-> "SharedVolume", volume |-> volume, readonly |-> readonly]
ContainerLink(container, alias) ==
    [t |-> "ContainerLink", container |-> container, alias |-> alias]
PortBinding(exposed_port, host_port, interface) ==
    [t |-> "PortBinding", exposed_port |-> exposed_port,
     host_port |-> host_port, interface |-> interface]

RecordTypes == {"SharedVolume", "ContainerLink", "PortBinding"}

(* Outcomes of a call *)
Return(v) == [t |-> "return", value |-> v]
Raise(exc, msg) == [t |-> "raise", exc |-> exc, msg |-> msg]
Pending == [t |-> "pending"]

----------------------------------------------------------------------------
(* Python built-ins used by the module *)

\* isinstance(v, six.string_types)
IsString(v) == v.t = "str"

\* isinstance(v, (list, tuple)); a namedtuple is a tuple
IsListOrTuple(v) == v.t \in {"list", "tuple"} \cup RecordTypes

IsDict(v) == v.t = "dict"

\* isinstance(v, lazy_type) or uses_type_registry(v)
uses_type_registry(v) == v.t = "lazy"

\* the elements of a list or tuple; those of a namedtuple are its fields
Items(v) ==
    CASE v.t \in {"list", "tuple"} -> v.items
      [] v.t = "SharedVolume" -> <<v.volume, v.readonly>>
      [] v.t = "ContainerLink" -> <<v.container, v.alias>>
      [] v.t = "PortBinding" -> <<v.exposed_port, v.host_port, v.interface>>

\* bool(v)
Truthy(v) ==
    CASE v.t = "NoneType" -> FALSE
      [] v.t = "bool" -> v.b
      [] v.t = "int" -> v.n # 0
      [] v.t = "str" -> v.s # ""
      [] v.t \in {"list", "tuple"} -> Len(v.items) > 0
      [] v.t = "dict" -> Len(v.pairs) > 0
      [] OTHER -> TRUE

\* v in ('ro', 'rw')
InRoRw(v) == v.t = "str" /\ v.s \in {"ro", "rw"}

----------------------------------------------------------------------------
(* The functions of input.py *)

\* value and value != 'rw': a falsy value is returned as it is
read_only(v) == IF ~Truthy(v) THEN v ELSE Bool(v # Str("rw"))

get_list(v) ==
    IF v = None THEN Return(List(<<>>))
    ELSE IF IsListOrTuple(v) THEN Return(List(Items(v)))
    ELSE IF IsString(v) \/ uses_type_registry(v) THEN Return(List(<<v>>))
    ELSE Raise("ValueError", "Invalid type")

\* get_shared_volume without the test for a SharedVolume
get_shared_volume_norecord(v) ==
    IF IsString(v) THEN Return(SharedVolume(v, Bool(FALSE)))
    ELSE IF IsListOrTuple(v) THEN
        LET e == Items(v) IN
        IF Len(e) = 2 THEN Return(SharedVolume(e[1], read_only(e[2])))
        ELSE IF Len(e) = 1 THEN Return(SharedVolume(e[1], Bool(FALSE)))
        ELSE Raise("ValueError", "Invalid element length")
    ELSE IF IsDict(v) THEN
        IF Len(v.pairs) = 1
        THEN Return(SharedVolume(v.pairs[1].k, read_only(v.pairs[1].val)))
        ELSE Raise("ValueError", "Invalid element length")
    ELSE Raise("ValueError", "Invalid type")

get_shared_volume(v) ==
    IF v.t = "SharedVolume" THEN Return(v)
    ELSE IF IsString(v) THEN Return(SharedVolume(v, Bool(FALSE)))
    ELSE IF IsListOrTuple(v) THEN
        LET e == Items(v) IN
        IF Len(e) = 2 THEN Return(SharedVolume(e[1], read_only(e[2])))
        ELSE IF Len(e) = 1 THEN Return(SharedVolume(e[1], Bool(FALSE)))
        ELSE Raise("ValueError", "Invalid element length")
    ELSE IF IsDict(v) THEN
        IF Len(v.pairs) = 1
        THEN Return(SharedVolume(v.pairs[1].k, read_only(v.pairs[1].val)))
        ELSE Raise("ValueError", "Invalid element length")
    ELSE Raise("ValueError", "Invalid type")

\* _shared_host_volume_from_tuple that drops the indicator of three arguments
_shared_host_volume_from_tuple_noflag(values) ==
    IF Len(values) = 3
    THEN Return(SharedVolume(Tuple(<<values[1], values[2]>>), Bool(FALSE)))
    ELSE IF Len(values) = 2 THEN
        LET v0 == values[1]
            v1 == values[2]
        IN  IF IsListOrTuple(v1) THEN
                LET n == Items(v1) IN
                IF Len(n) = 0 THEN Raise("IndexError", "index out of range")
                ELSE IF Len(n) = 2
                THEN Return(SharedVolume(Tuple(<<v0, n[1]>>), read_only(n[2])))
                ELSE IF Len(n) = 1 THEN
                    IF n[1].t = "bool" \/ InRoRw(n[1])
                    THEN Return(SharedVolume(v0, read_only(n[1])))
                    ELSE Return(SharedVolume(Tuple(<<v0, n[1]>>), Bool(FALSE)))
                ELSE Raise("ValueError", "Nested list")
            ELSE IF v1.t = "bool" \/ InRoRw(v1)
            THEN Return(SharedVolume(v0, read_only(v1)))
            ELSE Return(SharedVolume(Tuple(values), Bool(FALSE)))
    ELSE IF Len(values) = 1 THEN Return(SharedVolume(values[1], Bool(FALSE)))
    ELSE Raise("ValueError", "Invalid element length")

\* values is the tuple of the positional arguments
_shared_host_volume_from_tuple(values) ==
    IF Len(values) = 3
    THEN Return(SharedVolume(Tuple(<<values[1], values[2]>>), read_only(values[3])))
    ELSE IF Len(values) = 2 THEN
        LET v0 == values[1]
            v1 == values[2]
        IN  IF IsListOrTuple(v1) THEN
                LET n == Items(v1) IN
                IF Len(n) = 0 THEN Raise("IndexError", "index out of range")
                ELSE IF Len(n) = 2
                THEN Return(SharedVolume(Tuple(<<v0, n[1]>>), read_only(n[2])))
                ELSE IF Len(n) = 1 THEN
                    IF n[1].t = "bool" \/ InRoRw(n[1])
                    THEN Return(SharedVolume(v0, read_only(n[1])))
                    ELSE Return(SharedVolume(Tuple(<<v0, n[1]>>), Bool(FALSE)))
                ELSE Raise("ValueError", "Nested list")
            ELSE IF v1.t = "bool" \/ InRoRw(v1)
            THEN Return(SharedVolume(v0, read_only(v1)))
            ELSE Return(SharedVolume(Tuple(values), Bool(FALSE)))
    ELSE IF Len(values) = 1 THEN Return(SharedVolume(values[1], Bool(FALSE)))
    ELSE Raise("ValueError", "Invalid element length")

get_shared_host_volume(v) ==
    IF v.t = "SharedVolume" THEN Return(v)
    ELSE IF IsString(v) THEN Return(SharedVolume(v, Bool(FALSE)))
    ELSE IF IsListOrTuple(v) THEN _shared_host_volume_from_tuple(Items(v))
    ELSE IF IsDict(v) THEN
        IF Len(v.pairs) = 1 THEN
            LET c_path == v.pairs[1].k
                val == v.pairs[1].val
            IN  IF IsListOrTuple(val)
                THEN _shared_host_volume_from_tuple(<<c_path>> \o Items(val))
                ELSE _shared_host_volume_from_tuple(<<c_path, val>>)
        ELSE Raise("ValueError", "Invalid element length")
    ELSE Raise("ValueError", "Invalid type")

\* get_container_link that takes every length from 2 on as a pair
get_container_link_ge2(v) ==
    IF v.t = "ContainerLink" THEN Return(v)
    ELSE IF IsString(v) THEN Return(ContainerLink(v, v))
    ELSE IF IsListOrTuple(v) THEN
        LET e == Items(v) IN
        IF Len(e) >= 2 THEN Return(ContainerLink(e[1], e[2]))
        ELSE IF Len(e) = 1 THEN Return(ContainerLink(e[1], e[1]))
        ELSE Raise("ValueError", "Invalid element length")
    ELSE Raise("ValueError", "Invalid type")

get_container_link(v) ==
    IF v.t = "ContainerLink" THEN Return(v)
    ELSE IF IsString(v) THEN Return(ContainerLink(v, v))
    ELSE IF IsListOrTuple(v) THEN
        LET e == Items(v) IN
        IF Len(e) = 2 THEN Return(ContainerLink(e[1], e[2]))
        ELSE IF Len(e) = 1 THEN Return(ContainerLink(e[1], e[1]))
        ELSE Raise("ValueError", "Invalid element length")
    ELSE Raise("ValueError", "Invalid type")

\* isinstance(v, six.string_types + (int, long)); bool is a subclass of int
IsSubType(v) == v.t \in {"str", "int", "bool"}

\* get_port_binding that loses the interface of a nested (host port, interface)
get_port_binding_nointerface(v) ==
    IF v.t = "PortBinding" THEN Return(v)
    ELSE IF IsSubType(v) THEN Return(PortBinding(v, None, None))
    ELSE IF IsListOrTuple(v) THEN
        LET e == Items(v) IN
        IF Len(e) = 1 /\ IsSubType(e[1]) THEN Return(PortBinding(e[1], None, None))
        ELSE IF Len(e) = 2 THEN
            LET ex_port == e[1]
                host_bind == e[2]
            IN  IF IsSubType(host_bind) \/ host_bind = None \/ uses_type_registry(host_bind)
                THEN Return(PortBinding(ex_port, host_bind, None))
                ELSE IF IsListOrTuple(host_bind) /\ Len(Items(host_bind)) = 2
                THEN Return(PortBinding(ex_port, Items(host_bind)[1], None))
                ELSE Raise("ValueError", "Invalid sub-element type or length")
        ELSE IF Len(e) = 3 THEN Return(PortBinding(e[1], e[2], e[3]))
        ELSE Raise("ValueError", "Invalid element length")
    ELSE Raise("ValueError", "Invalid type")

get_port_binding(v) ==
    IF v.t = "PortBinding" THEN Return(v)
    ELSE IF IsSubType(v) THEN Return(PortBinding(v, None, None))
    ELSE IF IsListOrTuple(v) THEN
        LET e == Items(v) IN
        IF Len(e) = 1 /\ IsSubType(e[1]) THEN Return(PortBinding(e[1], None, None))
        ELSE IF Len(e) = 2 THEN
            LET ex_port == e[1]
                host_bind == e[2]
            IN  IF IsSubType(host_bind) \/ host_bind = None \/ uses_type_registry(host_bind)
                THEN Return(PortBinding(ex_port, host_bind, None))
                ELSE IF IsListOrTuple(host_bind) /\ Len(Items(host_bind)) = 2
                THEN Return(PortBinding(ex_port, Items(host_bind)[1], Items(host_bind)[2]))
                ELSE Raise("ValueError", "Invalid sub-element type or length")
        ELSE IF Len(e) = 3 THEN Return(PortBinding(e[1], e[2], e[3]))
        ELSE Raise("ValueError", "Invalid element length")
    ELSE Raise("ValueError", "Invalid type")

\* a list comprehension over the outcomes rs of conversion_func on the
\* elements, reversed
Comprehension_reversed(rs) ==
    LET bad == {i \in 1..Len(rs) : rs[i].t = "raise"}
    IN  IF bad # {}
        THEN rs[CHOOSE i \in bad : \A j \in bad : i <= j]
        ELSE Return(List([i \in 1..Len(rs) |-> rs[Len(rs) + 1 - i].value]))

\* [conversion_func(e) for e in ...], given the outcomes rs of conversion_func
\* on the elements in order: the first element that raises aborts it
Comprehension(rs) ==
    LET bad == {i \in 1..Len(rs) : rs[i].t = "raise"}
    IN  IF bad # {}
        THEN rs[CHOOSE i \in bad : \A j \in bad : i <= j]
        ELSE Return(List([i \in 1..Len(rs) |-> rs[i].value]))

\* conversion_func(e), for the function handed over as conversion_func
Apply(conversion_func, e) ==
    CASE conversion_func = "get_shared_volume" -> get_shared_volume(e)
      [] conversion_func = "get_shared_host_volume" -> get_shared_host_volume(e)
      [] conversion_func = "get_container_link" -> get_container_link(e)
      [] conversion_func = "get_port_binding" -> get_port_binding(e)

_get_listed_tuples(v, element_type, conversion_func) ==
    IF v = None THEN Return(List(<<>>))
    ELSE IF v.t = element_type \/ uses_type_registry(v) THEN Return(List(<<v>>))
    ELSE IF IsString(v) THEN Comprehension(<<Apply(conversion_func, v)>>)
    ELSE IF IsListOrTuple(v)
    THEN Comprehension([i \in 1..Len(Items(v)) |-> Apply(conversion_func, Items(v)[i])])
    ELSE IF IsDict(v)
    THEN Comprehension([i \in 1..Len(v.pairs) |->
            Apply(conversion_func, Tuple(<<v.pairs[i].k, v.pairs[i].val>>))])
    ELSE Raise("ValueError", "Invalid type")

get_shared_volumes(v) == _get_listed_tuples(v, "SharedVolume", "get_shared_volume")
get_shared_host_volumes(v) == _get_listed_tuples(v, "SharedVolume", "get_shared_host_volume")
get_container_links(v) == _get_listed_tuples(v, "ContainerLink", "get_container_link")
get_port_bindings(v) == _get_listed_tuples(v, "PortBinding", "get_port_binding")

----------------------------------------------------------------------------
(* The inputs of the calls *)

\* longest plain list or tuple handed to a function
MaxLen == 4
\* longest list or tuple nested in a pair or held by a dict
MaxNested == 3
\* longest list handed to a batch function
MaxBatch == 3

SeqsOver(S, lo, hi) == UNION {[1..k -> S] : k \in lo..hi}

Atoms ==
    {None, Bool(TRUE), Bool(FALSE), PyInt(0), PyInt(80), Str(""), Str("a"),
     Str("ro"), Str("rw"), Lazy(1), Float}

\* the elements of the longer sequences
SmallAtoms == {None, Str("a"), Str("ro"), Lazy(1)}

FlatItems == SeqsOver(Atoms, 0, 2) \cup SeqsOver(SmallAtoms, 3, MaxLen)

Records ==
    {SharedVolume(v, r) :
        v \in {Str("a"), Lazy(1), Tuple(<<Str("a"), Str("/h")>>)},
        r \in Atoms \cup {Tuple(<<Str("/h"), Str("ro")>>)}}
    \cup {ContainerLink(c, a) : c \in {Str("a"), Lazy(1)}, a \in SmallAtoms}
    \cup {PortBinding(e, h, i) :
            e \in {PyInt(80), Str("a"), Lazy(1)},
            h \in {None, PyInt(80), Tuple(<<PyInt(80), Str("a")>>)},
            i \in {None, Str("a")}}

\* what a pair may hold as its second element, or a dict as its value
Nested ==
    {Tuple(s) : s \in SeqsOver(Atoms, 0, 2) \cup SeqsOver(SmallAtoms, 3, MaxNested)}
    \cup {List(s) : s \in SeqsOver(SmallAtoms, 0, 2)}
    \cup {Tuple(<<Str("/h"), Tuple(<<Str("ro")>>)>>), Tuple(<<Tuple(<<Str("/h")>>)>>),
          SharedVolume(Str("/h"), Str("ro")), ContainerLink(Str("a"), Str("a")),
          Dict(<<>>)}

PairItems == {<<v0, n>> : v0 \in {Str("a"), Lazy(1)}, n \in Nested}

Dicts ==
    {Dict(<<>>)}
    \cup {Dict(<<Entry(k, v)>>) : k \in {Str("a"), Lazy(1)}, v \in Atoms \cup Nested}
    \cup {Dict(<<Entry(Str("a"), v), Entry(Str("b"), w)>>) : v, w \in SmallAtoms}

\* the elements of the lists handed to the batch functions
BatchElems ==
    {Str("a"), PyInt(80), Lazy(1), Tuple(<<>>), Tuple(<<Str("b")>>),
     Tuple(<<Str("b"), Str("ro")>>), Tuple(<<Str("c"), Str("/h"), None>>),
     SharedVolume(Str("a"), Str("ro")), PortBinding(PyInt(80), None, None)}

BatchItems == SeqsOver(BatchElems, 0, MaxBatch)

Inputs ==
    Atoms \cup Records \cup Dicts
    \cup {Tuple(s) : s \in FlatItems \cup PairItems \cup BatchItems}
    \cup {List(s) : s \in SeqsOver(Atoms, 0, 2) \cup PairItems \cup BatchItems}

----------------------------------------------------------------------------
(* One call of one function on one input *)

Single ==
    {"get_shared_volume", "get_shared_host_volume", "get_container_link",
     "get_port_binding"}

Batch ==
    {"get_shared_volumes", "get_shared_host_volumes", "get_container_links",
     "get_port_bindings"}

Init ==
    /\ value \in Inputs
    /\ func = "idle"
    /\ result = Pending

Call(name, outcome) ==
    /\ func = "idle"
    /\ func' = name
    /\ result' = outcome
    /\ UNCHANGED value

Call_read_only == Call("read_only", Return(read_only(value)))
Call_get_list == Call("get_list", get_list(value))
Call_get_shared_volume == Call("get_shared_volume", get_shared_volume(value))
Call_get_shared_host_volume ==
    Call("get_shared_host_volume", get_shared_host_volume(value))
Call_get_container_link == Call("get_container_link", get_container_link(value))
Call_get_port_binding == Call("get_port_binding", get_port_binding(value))
Call_get_shared_volumes == Call("get_shared_volumes", get_shared_volumes(value))
Call_get_shared_host_volumes ==
    Call("get_shared_host_volumes", get_shared_host_volumes(value))
Call_get_container_links == Call("get_container_links", get_container_links(value))
Call_get_port_bindings == Call("get_port_bindings", get_port_bindings(value))

Next ==
    \/ Call_read_only
    \/ Call_get_list
    \/ Call_get_shared_volume
    \/ Call_get_shared_host_volume
    \/ Call_get_container_link
    \/ Call_get_port_binding
    \/ Call_get_shared_volumes
    \/ Call_get_shared_host_volumes
    \/ Call_get_container_links
    \/ Call_get_port_bindings

Spec == Init /\ [][Next]_vars

----------------------------------------------------------------------------
(* The vocabulary of the properties *)

\* The module raises ValueError throughout; the message tells a value of an
\* unsupported type from one of an unsupported length or arity.
InvalidTypeError(r) == r.t = "raise" /\ r.exc = "ValueError" /\ r.msg = "Invalid type"
InvalidShapeError(r) ==
    /\ r.t = "raise"
    /\ r.exc = "ValueError"
    /\ r.msg \in {"Invalid element length", "Nested list",
                  "Invalid sub-element type or length"}

\* a list or tuple that is no namedtuple
IsPlainSeq(v) == v.t \in {"list", "tuple"}

\* the per-kind function of a call, by name
Conv(name, v) ==
    CASE name \in {"get_shared_volume", "get_shared_volumes"} -> get_shared_volume(v)
      [] name \in {"get_shared_host_volume", "get_shared_host_volumes"} ->
            get_shared_host_volume(v)
      [] name \in {"get_container_link", "get_container_links"} -> get_container_link(v)
      [] name \in {"get_port_binding", "get_port_bindings"} -> get_port_binding(v)

\* true for a truthy indicator other than 'rw', false otherwise
IsReadonly(v) == Bool(Truthy(v) /\ v # Str("rw"))

----------------------------------------------------------------------------
(* Properties *)

\* C1: every per-kind function returns a record of its own kind as it is,
\* whatever the fields of the record hold, and so converting the result of a
\* conversion once more gives that result again.
C1_RecordReturnedUnchanged ==
    /\ (func \in {"get_shared_volume", "get_shared_host_volume"}
           /\ value.t = "SharedVolume") => result = Return(value)
    /\ (func = "get_container_link" /\ value.t = "ContainerLink")
           => result = Return(value)
    /\ (func = "get_port_binding" /\ value.t = "PortBinding")
           => result = Return(value)
    /\ (func \in Single /\ result.t = "return")
           => Conv(func, result.value) = result

\* a SharedVolume whose fields read like the pair (alias, 'ro') came back as it is
C1_Witness ==
    /\ func = "get_shared_volume"
    /\ value = SharedVolume(Str("a"), Str("ro"))
    /\ result = Return(value)

\* C2: the readonly field of a SharedVolume built from a string, a list, a
\* tuple or a dict is the boolean True or the boolean False, never the
\* indicator itself.
C2_ReadonlyIsBoolean ==
    (/\ func \in {"get_shared_volume", "get_shared_host_volume"}
     /\ value.t # "SharedVolume"
     /\ result.t = "return")
        => result.value.readonly.t = "bool"

\* the record the four rules of C3 give for the pair (v0, v1)
HostPairRules(v0, v1) ==
    IF IsListOrTuple(v1) /\ Len(Items(v1)) = 2
    THEN SharedVolume(Tuple(<<v0, Items(v1)[1]>>), IsReadonly(Items(v1)[2]))
    ELSE IF IsListOrTuple(v1) /\ Len(Items(v1)) = 1
    THEN IF Items(v1)[1].t = "bool" \/ InRoRw(Items(v1)[1])
         THEN SharedVolume(v0, IsReadonly(Items(v1)[1]))
         ELSE SharedVolume(Tuple(<<v0, Items(v1)[1]>>), Bool(FALSE))
    ELSE IF v1.t = "bool" \/ InRoRw(v1)
    THEN SharedVolume(v0, IsReadonly(v1))
    ELSE SharedVolume(Tuple(<<v0, v1>>), Bool(FALSE))

\* C3: get_shared_host_volume on a pair (v0, v1) returns the record of the
\* first of the four rules that matches: nested pair, nested single, flag,
\* and otherwise container path and host path.
C3_HostPairRules ==
    (func = "get_shared_host_volume" /\ IsPlainSeq(value) /\ Len(value.items) = 2)
        => result = Return(HostPairRules(value.items[1], value.items[2]))

\* C4: get_port_binding on a pair (exposed, host_bind) takes a string, an
\* integer, a lazy value or None as the host port on all interfaces, a nested
\* pair as (host port, interface), and raises on anything else; the nested
\* form (e, (h, i)) gives the record of the triple (e, h, i).
C4_PortPair ==
    (func = "get_port_binding" /\ IsPlainSeq(value) /\ Len(value.items) = 2) =>
        LET exposed == value.items[1]
            host_bind == value.items[2]
        IN  IF host_bind.t \in {"str", "int", "bool", "lazy", "NoneType"}
            THEN result = Return(PortBinding(exposed, host_bind, None))
            ELSE IF IsListOrTuple(host_bind) /\ Len(Items(host_bind)) = 2
            THEN /\ result = Return(PortBinding(exposed, Items(host_bind)[1],
                                                Items(host_bind)[2]))
                 /\ result = get_port_binding(
                        Tuple(<<exposed, Items(host_bind)[1], Items(host_bind)[2]>>))
            ELSE InvalidShapeError(result)

\* the nested form ('a', (None, 'ro')) was converted
C4_Witness ==
    /\ func = "get_port_binding"
    /\ value = Tuple(<<Str("a"), Tuple(<<None, Str("ro")>>)>>)
    /\ result = Return(PortBinding(Str("a"), None, Str("ro")))

\* a list or tuple of one to max strings or lazy values, at least one lazy
LazyInStringPlace(v, max) ==
    /\ IsPlainSeq(v)
    /\ Len(v.items) \in 1..max
    /\ \A i \in 1..Len(v.items) : v.items[i].t \in {"str", "lazy"}
    /\ \E i \in 1..Len(v.items) : v.items[i].t = "lazy"

\* C5: a lazy value is taken wherever a string is: get_list and the batch
\* functions wrap it in a list, the per-kind functions convert it as they
\* convert a string, alone or as an element of a list or tuple, and so do
\* the batch functions for the elements of their list.
C5_LazyAccepted ==
    /\ (func \in {"get_list"} \cup Batch /\ value.t = "lazy")
           => result = Return(List(<<value>>))
    /\ (func \in {"get_shared_volume", "get_shared_host_volume"} /\ value.t = "lazy")
           => result = Return(SharedVolume(value, Bool(FALSE)))
    /\ (func = "get_container_link" /\ value.t = "lazy")
           => result = Return(ContainerLink(value, value))
    /\ (func = "get_port_binding" /\ value.t = "lazy")
           => result = Return(PortBinding(value, None, None))
    /\ (func \in {"get_shared_volume", "get_container_link"}
           /\ LazyInStringPlace(value, 2)) => result.t = "return"
    /\ (func \in {"get_shared_host_volume", "get_port_binding"}
           /\ LazyInStringPlace(value, 3)) => result.t = "return"
    /\ (func \in Batch /\ IsPlainSeq(value) /\ Len(value.items) > 0
           /\ \A i \in 1..Len(value.items) : value.items[i].t \in {"str", "lazy"})
           => result.t = "return"

\* C6: a batch function on a plain list or tuple, each element of which its
\* per-kind function converts, returns the list of the converted elements in
\* the order of the input, one for each element, and leaves the input alone.
C6_BatchInOrder ==
    [][(/\ func' \in Batch
        /\ IsPlainSeq(value)
        /\ \A i \in 1..Len(value.items) : Conv(func', value.items[i]).t = "return")
       => (/\ value' = value
           /\ result' = Return(List([i \in 1..Len(value.items) |->
                                       Conv(func', value.items[i]).value])))]_vars

\* a list of three elements, the first and the last equal, was converted to
\* three records
C6_Witness ==
    /\ func = "get_shared_volumes"
    /\ value = List(<<Str("a"), Tuple(<<Str("b"), Str("ro")>>), Str("a")>>)
    /\ result = Return(List(<<SharedVolume(Str("a"), Bool(FALSE)),
                              SharedVolume(Str("b"), Bool(TRUE)),
                              SharedVolume(Str("a"), Bool(FALSE))>>))

\* C7: get_port_bindings on a string or an integer, which get_port_binding
\* takes as the exposed port, returns the list of that one PortBinding.
C7_BatchTakesScalarPort ==
    (func = "get_port_bindings" /\ value.t \in {"str", "int"})
        => result = Return(List(<<PortBinding(value, None, None)>>))

\* the longest list or tuple each per-kind function converts
MaxLength(name) ==
    IF name \in {"get_shared_volume", "get_container_link"} THEN 2 ELSE 3

\* C8: a per-kind function raises the error of a wrong length on an empty
\* list or tuple and on one longer than it converts, whatever the elements.
C8_BoundaryLengths ==
    (/\ func \in Single
     /\ IsPlainSeq(value)
     /\ (Len(value.items) = 0 \/ Len(value.items) > MaxLength(func)))
        => InvalidShapeError(result)

\* get_container_link has refused a tuple of three elements
C8_Witness ==
    /\ func = "get_container_link"
    /\ IsPlainSeq(value)
    /\ Len(value.items) = 3
    /\ InvalidShapeError(result)

\* C9: get_shared_host_volume returns a SharedVolume or raises the error of
\* a wrong type or of a wrong length, nothing else; a pair whose second
\* element is a list or tuple of a length other than 1 or 2, the empty one
\* included, raises the error of a wrong length.
C9_HostVolumeErrors ==
    func = "get_shared_host_volume" =>
        /\ \/ result.t = "return" /\ result.value.t = "SharedVolume"
           \/ InvalidShapeError(result)
           \/ InvalidTypeError(result)
        /\ (/\ IsPlainSeq(value)
            /\ Len(value.items) = 2
            /\ IsListOrTuple(value.items[2])
            /\ Len(Items(value.items[2])) \notin {1, 2})
               => InvalidShapeError(result)

\* no list or tuple among the elements of v
FlatSeq(v) == \A i \in 1..Len(Items(v)) : ~IsListOrTuple(Items(v)[i])

\* C10: get_shared_host_volume on the dict {k: v} returns what it returns on
\* the pair (k, v), for v no list or tuple, or one of one or two elements
\* none of which is a list or tuple.
C10_DictAsPair ==
    (/\ func = "get_shared_host_volume"
     /\ value.t = "dict"
     /\ Len(value.pairs) = 1
     /\ \/ ~IsListOrTuple(value.pairs[1].val)
        \/ Len(Items(value.pairs[1].val)) \in {1, 2} /\ FlatSeq(value.pairs[1].val))
        => result = get_shared_host_volume(Tuple(<<value.pairs[1].k, value.pairs[1].val>>))

\* the dict {'a': ('a', 'ro')} gave the record of ('a', ('a', 'ro'))
C10_Witness ==
    /\ func = "get_shared_host_volume"
    /\ value = Dict(<<Entry(Str("a"), Tuple(<<Str("a"), Str("ro")>>))>>)
    /\ result = Return(SharedVolume(Tuple(<<Str("a"), Str("a")>>), Bool(TRUE)))

====
